---------------------------- MODULE Spec2Model ----------------------------
(***************************************************************************)
(* A model of mfathirirhas/httpserver: a thin layer over httprouter that   *)
(* registers decorated handlers, resolves request ids, recovers panics and *)
(* writes responses.                                                       *)
(*                                                                         *)
(* Three specifications share the variables:                               *)
(*   SpecReg  the registration surface of Server and Group (route table)   *)
(*   SpecReq  one request after the other through f, recoverPanic, the     *)
(*            handler and the response helpers                             *)
(*   SpecRun  Run, the error channel and its receivers                     *)
(*                                                                         *)
(* Strings the code inspects byte by byte (path patterns) are sequences of *)
(* one-character strings.                                                  *)
(***************************************************************************)
EXTENDS Integers, Sequences, FiniteSets, TLC

VARIABLES
    \* ---- route table (SpecReg)
    middlewares,   \* Server.middlewares, the server's global list
    routes,        \* Server.handlers: <<verb, pattern>> -> decorated handler
    lastCall,      \* the registration call made last, and how it ended
    nCalls,        \* registration calls made so far
    hit,           \* where the request dispatched since the last call went
    \* ---- one request (SpecReq)
    pc,            \* where the request being served is
    route,         \* the kind of route it matched
    ps,            \* the router's path parameters of the match
    orig,          \* the request as it arrived (for reference)
    req,           \* the request as the handlers see it (mutated in place)
    rw,            \* the responseWriter wrapper f made for it
    wire,          \* the calls the underlying http.ResponseWriter received
    respHdr,       \* the response's header map
    genIds,        \* identifiers uuid.New() has returned so far
    steps,         \* writes the user handler has made for this request
    fault,         \* whether the chain raised a fault for this request
    lastHelper,    \* the last response-helper call of this request
    delegated,     \* the path handed to the file server delegate
    nServed,       \* requests taken in so far
    \* ---- Run and the error channel (SpecRun)
    runPc,         \* per Run call: where it is
    runErr,        \* per Run call: what serve() returned
    errChan,       \* the channel's buffer (always empty when unbuffered)
    recvPc,        \* per receiver on ListenError(): waiting or not
    recvLog        \* per receiver: the values it has received

regVars == <<middlewares, routes, lastCall, nCalls, hit>>
reqVars == <<pc, route, ps, orig, req, rw, wire, respHdr, genIds, steps,
             fault, lastHelper, delegated, nServed>>
runVars == <<runPc, runErr, errChan, recvPc, recvLog>>
vars == <<regVars, reqVars, runVars>>

\* ------------------------------------------------------------------ bounds
MaxCalls == 2     \* registration calls in a run of SpecReg
MaxRequests == 2  \* requests served in a run of SpecReq
MaxSteps == 2     \* calls a user handler makes on its writer and request
MaxRuns == 2      \* goroutines calling Run in a run of SpecRun
MaxReceivers == 2 \* goroutines receiving from ListenError()
MaxReceives == 2  \* values one receiver takes

\* ---------------------------------------------------------------- helpers
Last(s) == s[Len(s)]

\* s[len(s)-n:] of Go, for 0 <= n <= len(s)
Tail_n(s, n) == SubSeq(s, Len(s) - n + 1, Len(s))


(***************************************************************************)
(*                      ROUTE TABLE: Server and Group                      *)
(***************************************************************************)
Verbs == {"GET", "HEAD", "POST", "PUT", "DELETE", "PATCH", "OPTIONS"}

\* "/*filepath", the placeholder FILES requires at the end of its pattern
WildSuffix == <<"/", "*", "f", "i", "l", "e", "p", "a", "t", "h">>
PathA == <<"/", "a">>
\* the prefix and the middlewares of the one Group the model creates
GroupPrefix == <<"/", "g">>
GroupMiddlewares == <<"mG">>

\* inputs of the registration calls
VerbPaths == {PathA}
FilePatterns == { PathA,                       \* shorter than the suffix
                  SubSeq(WildSuffix, 2, 10),   \* "*filepath": 9 bytes
                  WildSuffix,                  \* exactly the suffix
                  PathA \o WildSuffix,         \* "/a/*filepath"
                  WildSuffix \o PathA }        \* holds it, does not end with it
RouteMiddlewares == {<<>>, <<"mR">>}

\* New: the logging middleware is appended when Opts.EnableLogger is set
NewMiddlewares(enableLogger) == IF enableLogger THEN <<"log">> ELSE <<>>

\* Server.chainMiddlewares(handler, middlewares...): the server's global list,
\* then the route's, around the handler; first of the list outermost
ServerChain(srvMws, handler, mws) == srvMws \o mws \o <<handler>>

\* Group.chainMiddlewares(handler, middlewares...): the group's list ahead of
\* the route's, around the handler
GroupChain(handler, mws) == GroupMiddlewares \o mws \o <<handler>>

\* f(s.recoverPanic(chain)): what every registration hands to the router.
\* layers lists the nesting from the outside in, which is the order a request
\* enters them.
Decorate(chain, recv) ==
    [layers |-> <<"f", "recoverPanic">> \o chain, h |-> Last(chain), via |-> recv]

\* httprouter's Router.Handle: a second handle for the same method and path
\* panics and leaves the tree as it was
RouterHandle(tbl, verb, path, dh) ==
    IF <<verb, path>> \in DOMAIN tbl
    THEN [tbl |-> tbl, panic |-> "router", regs |-> <<<<verb, path>>>>]
    ELSE [tbl |-> [k \in DOMAIN tbl \cup {<<verb, path>>} |->
                      IF k = <<verb, path>> THEN dh ELSE tbl[k]],
          panic |-> "none", regs |-> <<<<verb, path>>>>]

\* the router method each Server registration method calls
ServerBinds(api) == IF api = "PUT" THEN "POST" ELSE api

\* the router method each Group registration method calls
GroupBinds(api) == api

\* Server.GET, HEAD, POST, PUT, DELETE, PATCH, OPTIONS
ServerVerb(tbl, srvMws, api, path, handler, mws, recv) ==
    RouterHandle(tbl, ServerBinds(api), path,
                 Decorate(ServerChain(srvMws, handler, mws), recv))

\* Group.GET, HEAD, POST, PUT, DELETE, PATCH, OPTIONS
GroupVerb(tbl, api, path, handler, mws) ==
    RouterHandle(tbl, GroupBinds(api), GroupPrefix \o path,
                 Decorate(GroupChain(handler, mws), "group"))

\* FILES's test of its pattern
\* (faulty variant: the test left out)
EndsWithFilepathNoCheck(filePath) == TRUE
EndsWithFilepath(filePath) ==
    ~(Len(filePath) < 10 \/ Tail_n(filePath, 10) # WildSuffix)

\* Server.FILES: panics on a pattern without the suffix, else s.GET with the
\* file-serving closure
ServerFILES(tbl, srvMws, filePath, handler, mws, recv) ==
    IF ~EndsWithFilepath(filePath)
    THEN [tbl |-> tbl, panic |-> "suffix", regs |-> <<>>]
    ELSE ServerVerb(tbl, srvMws, "GET", filePath, handler, mws, recv)

\* Group.FILES: Server.FILES under prefix + filePath
GroupFILES(tbl, srvMws, filePath, handler, mws) ==
    ServerFILES(tbl, srvMws, GroupPrefix \o filePath, handler, mws, "group")

NoCall == [recv |-> "none", api |-> "none", path |-> <<>>, mws |-> <<>>,
           h |-> [kind |-> "none", id |-> 0], panic |-> "none", regs |-> <<>>]
NoHit == [verb |-> "none", h |-> [kind |-> "none", id |-> 0]]

\* the pattern a call registers under
FullPath(call) ==
    IF call.recv = "group" THEN GroupPrefix \o call.path ELSE call.path

Called(recv, api, path, mws, handler, res) ==
    /\ routes' = res.tbl
    /\ lastCall' = [recv |-> recv, api |-> api, path |-> path, mws |-> mws,
                    h |-> handler, panic |-> res.panic, regs |-> res.regs]
    /\ nCalls' = nCalls + 1
    /\ hit' = NoHit
    /\ UNCHANGED middlewares

UserHandler == [kind |-> "user", id |-> nCalls + 1]
FilesHandler == [kind |-> "files", id |-> nCalls + 1]

ServerRegister ==
    /\ nCalls < MaxCalls
    /\ \E api \in Verbs, path \in VerbPaths, mws \in RouteMiddlewares :
          Called("server", api, path, mws, UserHandler,
                 ServerVerb(routes, middlewares, api, path, UserHandler, mws,
                            "server"))
    /\ UNCHANGED <<reqVars, runVars>>

GroupRegister ==
    /\ nCalls < MaxCalls
    /\ \E api \in Verbs, path \in VerbPaths, mws \in RouteMiddlewares :
          Called("group", api, path, mws, UserHandler,
                 GroupVerb(routes, api, path, UserHandler, mws))
    /\ UNCHANGED <<reqVars, runVars>>

ServerRegisterFILES ==
    /\ nCalls < MaxCalls
    /\ \E filePath \in FilePatterns, mws \in RouteMiddlewares :
          Called("server", "FILES", filePath, mws, FilesHandler,
                 ServerFILES(routes, middlewares, filePath, FilesHandler, mws,
                             "server"))
    /\ UNCHANGED <<reqVars, runVars>>

GroupRegisterFILES ==
    /\ nCalls < MaxCalls
    /\ \E filePath \in FilePatterns, mws \in RouteMiddlewares :
          Called("group", "FILES", filePath, mws, FilesHandler,
                 GroupFILES(routes, middlewares, filePath, FilesHandler, mws))
    /\ UNCHANGED <<reqVars, runVars>>

\* the router's lookup for a request with method verb whose path matches the
\* pattern registered last
Lookup(tbl, verb, pattern) ==
    IF <<verb, pattern>> \in DOMAIN tbl THEN tbl[<<verb, pattern>>].h
    ELSE [kind |-> "none", id |-> 0]

Dispatch ==
    /\ lastCall.recv # "none"
    /\ \E verb \in Verbs :
          hit' = [verb |-> verb, h |-> Lookup(routes, verb, FullPath(lastCall))]
    /\ UNCHANGED <<middlewares, routes, lastCall, nCalls, reqVars, runVars>>


(***************************************************************************)
(*              ONE REQUEST: headers, query, response writer               *)
(***************************************************************************)
\* http.Header.Get on the values stored under one key: the first, or ""
Get(values) == IF values = <<>> THEN "" ELSE values[1]

\* uuid.New().String(): a value no earlier call returned
UUIDPool == <<"uuid-1", "uuid-2", "uuid-3", "uuid-4", "uuid-5", "uuid-6">>
NewUUID(issued) == UUIDPool[Len(issued) + 1]

\* f, lines 143-148: the request's headers after the request-id step
\* (faulty variant: X-Request-Id overrides an inbound Request-Id)
RequestIdSwapped(hdr, uuid) ==
    IF Get(hdr.xid) # "" THEN [hdr EXCEPT !.rid = <<Get(hdr.xid)>>]
    ELSE IF Get(hdr.rid) = "" THEN [hdr EXCEPT !.rid = <<uuid>>] ELSE hdr
RequestId(hdr, uuid) ==
    LET h1 == IF Get(hdr.rid) = "" /\ Get(hdr.xid) = ""
              THEN [hdr EXCEPT !.rid = <<uuid>>] ELSE hdr
    IN  IF Get(h1.rid) = "" /\ Get(h1.xid) # ""
        THEN [h1 EXCEPT !.rid = <<Get(h1.xid)>>] ELSE h1

\* whether f's first branch runs, that is whether uuid.New() is called
GeneratesId(hdr) == Get(hdr.rid) = "" /\ Get(hdr.xid) = ""

\* ---- the query string.  RawQuery is a sequence of '&'-separated segments;
\* a segment is a key=value pair, or one url.ParseQuery cannot decode (ok =
\* FALSE), which URL.Query() silently drops.
QueryKeys == {"filepath", "id", "q"}
SortedKeys == <<"filepath", "id", "q">>      \* sort.Strings order
Pair(k, v) == [k |-> k, v |-> v, ok |-> TRUE]
BadSegment == [k |-> "q", v |-> "%zz", ok |-> FALSE]

\* r.URL.Query(): url.Values, key -> the values in order of appearance
Query(rawQuery) ==
    [k \in QueryKeys |->
        LET sel == SelectSeq(rawQuery, LAMBDA s : s.ok /\ s.k = k)
        IN  [i \in 1..Len(sel) |-> sel[i].v]]

\* url.Values.Add
\* (faulty variant: Set in place of Add, dropping the values already there)
AddAsSet(values, key, value) == [values EXCEPT ![key] = <<value>>]
Add(values, key, value) == [values EXCEPT ![key] = Append(@, value)]

\* url.Values.Get
ValuesGet(values, key) == IF values[key] = <<>> THEN "" ELSE values[key][1]

\* url.Values.Encode: sorted by key, each key's values in order
RECURSIVE EncodeFrom(_, _)
EncodeFrom(values, i) ==
    IF i > Len(SortedKeys) THEN <<>>
    ELSE [j \in 1..Len(values[SortedKeys[i]]) |->
             Pair(SortedKeys[i], values[SortedKeys[i]][j])]
         \o EncodeFrom(values, i + 1)
Encode(values) == EncodeFrom(values, 1)

\* f, lines 151-153: the loop over the router's parameters
RECURSIVE AddParams(_, _, _)
AddParams(values, params, i) ==
    IF i > Len(params) THEN values
    ELSE AddParams(Add(values, params[i].Key, params[i].Value), params, i + 1)

\* f, lines 149-155: the request's RawQuery after the merge
MergeParams(rawQuery, params) ==
    IF Len(params) > 0
    THEN Encode(AddParams(Query(rawQuery), params, 1))
    ELSE rawQuery

\* ---- the response.  A response state rs holds the wrapper's fields (rw),
\* the calls made on the underlying http.ResponseWriter (wire) and the
\* header map (hdr).
StatusOK == 200
StatusInternalServerError == 500
PanicText == <<"httpserver got panic">>

newResponseWriter(reqID, xReqID) ==
    [statusCode |-> StatusOK, requestID |-> reqID, xRequestID |-> xReqID]

NoRw == [statusCode |-> 0, requestID |-> "", xRequestID |-> ""]
NoHdr == [date |-> "", rid |-> "", xid |-> "", ctype |-> ""]

\* responseWriter.WriteHeader
WriteHeader(rs, statusCode) ==
    [rs EXCEPT !.rw.statusCode = statusCode,
               !.wire = Append(@, [op |-> "WriteHeader", code |-> statusCode,
                                   data |-> <<>>])]

\* the embedded ResponseWriter's Write
Write(rs, data) ==
    [rs EXCEPT !.wire = Append(@, [op |-> "Write", code |-> 0, data |-> data])]

\* responseHeader(w, statusCode); own says whether w is a *responseWriter
responseHeader(rs, own, statusCode) ==
    LET d == [rs EXCEPT !.hdr.date = "now"]
    IN  IF ~own THEN WriteHeader(d, StatusInternalServerError)
        ELSE WriteHeader([d EXCEPT !.hdr.rid = rs.rw.requestID,
                                   !.hdr.xid = rs.rw.xRequestID], statusCode)

\* Response(w, statusCode, body)
Response(rs, own, statusCode, body) ==
    Write(responseHeader(rs, own, statusCode), body)

\* fmt.Fprintf(w, "%v", body) for a string body
Sprint(body) == IF body = "" THEN <<>> ELSE <<body>>

\* ResponseString(w, statusCode, body)
ResponseString(rs, own, statusCode, body) ==
    Write(responseHeader(rs, own, statusCode), Sprint(body))

\* json.Marshal on the values a handler passes: "point" is a struct of
\* numbers, "chan" a struct holding a channel
JSONValues == {"point", "chan"}
Marshal(v) ==
    IF v = "point" THEN [err |-> "nil", text |-> <<"{\"X\":1}">>]
    ELSE [err |-> "json: unsupported type", text |-> <<>>]

\* json.NewEncoder(w).Encode(body): nothing is written when Marshal fails,
\* else the text and a newline in one Write
\* (faulty variant: bytes streamed to the writer before the value is known
\* to be encodable)
EncodeJSONPartial(rs, v) ==
    [rs |-> Write(rs, <<"{">>), err |-> Marshal(v).err]
EncodeJSON(rs, v) ==
    IF Marshal(v).err # "nil" THEN [rs |-> rs, err |-> Marshal(v).err]
    ELSE [rs |-> Write(rs, Marshal(v).text \o <<"\n">>), err |-> "nil"]

\* ResponseJSON(w, statusCode, body): the response state and the error returned
ResponseJSON(rs, own, statusCode, v) ==
    EncodeJSON(responseHeader([rs EXCEPT !.hdr.ctype = "application/json"],
                              own, statusCode), v)

\* ---- net/http's view of the calls: the status line and the body sent
WireStatus(calls) ==
    IF calls = <<>> THEN StatusOK        \* sent when the handler returns
    ELSE IF calls[1].op = "WriteHeader" THEN calls[1].code
    ELSE StatusOK                        \* a Write first commits 200
RECURSIVE WireBodyFrom(_, _)
WireBodyFrom(calls, i) ==
    IF i > Len(calls) THEN <<>>
    ELSE (IF calls[i].op = "Write" THEN calls[i].data ELSE <<>>)
         \o WireBodyFrom(calls, i + 1)
WireBody(calls) == WireBodyFrom(calls, 1)


\* ---- inputs of a request
HeaderInputs ==
    { [rid |-> <<>>,        xid |-> <<>>],
      [rid |-> <<>>,        xid |-> <<"xid-1">>],
      [rid |-> <<"">>,      xid |-> <<"xid-1">>],
      [rid |-> <<"rid-1">>, xid |-> <<>>],
      [rid |-> <<"rid-1">>, xid |-> <<"xid-1">>] }

Param(k, v) == [Key |-> k, Value |-> v]

\* the route matched (plain: no parameters; param: "/u/:id"; files: a FILES
\* route, whose catch-all is named filepath), the parameters the router
\* captured and the query string the client sent
RequestInputs ==
    { [route |-> "plain", ps |-> <<>>, rawQuery |-> <<>>],
      [route |-> "plain", ps |-> <<>>,
       rawQuery |-> <<Pair("q", "2"), BadSegment, Pair("id", "1")>>],
      [route |-> "param", ps |-> <<Param("id", "7")>>, rawQuery |-> <<>>],
      [route |-> "param", ps |-> <<Param("id", "7")>>,
       rawQuery |-> <<Pair("q", "2"), BadSegment, Pair("id", "1")>>],
      [route |-> "files", ps |-> <<Param("filepath", "/x.css")>>,
       rawQuery |-> <<>>],
      [route |-> "files", ps |-> <<Param("filepath", "/x.css")>>,
       rawQuery |-> <<Pair("q", "2")>>],
      [route |-> "files", ps |-> <<Param("filepath", "/x.css")>>,
       rawQuery |-> <<Pair("filepath", "/secret")>>] }

UserStatuses == {201}
FileStatuses == {200, 404}

NoHelper == [name |-> "none", own |-> TRUE, status |-> 0, arg |-> "",
             from |-> 0, to |-> 0, ret |-> "none"]
NoRequest == [hdr |-> [rid |-> <<>>, xid |-> <<>>], rawQuery |-> <<>>]

rs == [rw |-> rw, wire |-> wire, hdr |-> respHdr]

Responded(rs2) ==
    /\ rw' = rs2.rw
    /\ wire' = rs2.wire
    /\ respHdr' = rs2.hdr

Helper(name, own, status, arg, rs2, ret) ==
    [name |-> name, own |-> own, status |-> status, arg |-> arg,
     from |-> Len(wire), to |-> Len(rs2.wire), ret |-> ret]

InUserHandler ==
    /\ pc = "chain"
    /\ route \in {"plain", "param"}
    /\ steps < MaxSteps

\* f: the router hands the next request to the decorated handler, which
\* resolves the request id, merges the path parameters into the query, wraps
\* the writer and calls recoverPanic's closure
f ==
    /\ pc \in {"idle", "done"}
    /\ nServed < MaxRequests
    /\ \E h \in HeaderInputs, in \in RequestInputs :
          LET uuid == NewUUID(genIds)
              hdr2 == RequestId(h, uuid)
          IN  /\ orig' = [hdr |-> h, rawQuery |-> in.rawQuery]
              /\ route' = in.route
              /\ ps' = in.ps
              /\ genIds' = IF GeneratesId(h) THEN Append(genIds, uuid)
                           ELSE genIds
              /\ req' = [hdr |-> hdr2,
                         rawQuery |-> MergeParams(in.rawQuery, in.ps)]
              /\ rw' = newResponseWriter(Get(hdr2.rid), Get(hdr2.xid))
    /\ wire' = <<>>
    /\ respHdr' = NoHdr
    /\ steps' = 0
    /\ fault' = FALSE
    /\ lastHelper' = NoHelper
    /\ delegated' = "none"
    /\ nServed' = nServed + 1
    /\ pc' = "chain"
    /\ UNCHANGED <<regVars, runVars>>

\* a middleware or the user handler calls w.WriteHeader
HandlerWriteHeader ==
    /\ InUserHandler
    /\ \E code \in UserStatuses : Responded(WriteHeader(rs, code))
    /\ steps' = steps + 1
    /\ UNCHANGED <<pc, route, ps, orig, req, genIds, fault, lastHelper,
                   delegated, nServed, regVars, runVars>>

\* ... calls w.Write
HandlerWrite ==
    /\ InUserHandler
    /\ Responded(Write(rs, <<"hi">>))
    /\ steps' = steps + 1
    /\ UNCHANGED <<pc, route, ps, orig, req, genIds, fault, lastHelper,
                   delegated, nServed, regVars, runVars>>

\* ... calls Response, with the writer f made (own) or with a writer of
\* another type that a middleware put around it
HandlerResponse ==
    /\ InUserHandler
    /\ \E own \in BOOLEAN, code \in UserStatuses :
          LET rs2 == Response(rs, own, code, <<"ok">>)
          IN  /\ Responded(rs2)
              /\ lastHelper' = Helper("Response", own, code, "ok", rs2, "none")
    /\ steps' = steps + 1
    /\ UNCHANGED <<pc, route, ps, orig, req, genIds, fault, delegated,
                   nServed, regVars, runVars>>

\* ... calls ResponseString
HandlerResponseString ==
    /\ InUserHandler
    /\ \E own \in BOOLEAN, code \in UserStatuses :
          LET rs2 == ResponseString(rs, own, code, "text")
          IN  /\ Responded(rs2)
              /\ lastHelper' = Helper("ResponseString", own, code, "text", rs2,
                                      "none")
    /\ steps' = steps + 1
    /\ UNCHANGED <<pc, route, ps, orig, req, genIds, fault, delegated,
                   nServed, regVars, runVars>>

\* ... calls ResponseJSON
HandlerResponseJSON ==
    /\ InUserHandler
    /\ \E own \in BOOLEAN, code \in UserStatuses, v \in JSONValues :
          LET res == ResponseJSON(rs, own, code, v)
          IN  /\ Responded(res.rs)
              /\ lastHelper' = Helper("ResponseJSON", own, code, v, res.rs,
                                      res.err)
    /\ steps' = steps + 1
    /\ UNCHANGED <<pc, route, ps, orig, req, genIds, fault, delegated,
                   nServed, regVars, runVars>>

\* ... overwrites the request's Request-Id header
HandlerSetHeader ==
    /\ InUserHandler
    /\ req' = [req EXCEPT !.hdr.rid = <<"forged">>]
    /\ steps' = steps + 1
    /\ UNCHANGED <<pc, route, ps, orig, rw, wire, respHdr, genIds, fault,
                   lastHelper, delegated, nServed, regVars, runVars>>

\* ... raises a fault: control passes to recoverPanic's deferred function
HandlerPanic ==
    /\ pc = "chain"
    /\ route \in {"plain", "param"}
    /\ fault' = TRUE
    /\ pc' = "recover"
    /\ UNCHANGED <<route, ps, orig, req, rw, wire, respHdr, genIds, steps,
                   lastHelper, delegated, nServed, regVars, runVars>>

\* ... returns: recoverPanic's deferred function finds nothing to recover
HandlerReturn ==
    /\ pc = "chain"
    /\ route \in {"plain", "param"}
    /\ pc' = "done"
    /\ UNCHANGED <<route, ps, orig, req, rw, wire, respHdr, genIds, steps,
                   fault, lastHelper, delegated, nServed, regVars, runVars>>

\* recoverPanic's deferred function on a fault: the 500 through
\* ResponseString on the writer f made, the log lines, and a plain return
recoverPanic ==
    /\ pc = "recover"
    /\ LET rs2 == ResponseString(rs, TRUE, StatusInternalServerError,
                                 PanicText[1])
       IN  /\ Responded(rs2)
           /\ lastHelper' = Helper("ResponseString", TRUE,
                                   StatusInternalServerError, PanicText[1],
                                   rs2, "none")
    /\ pc' = "done"
    /\ UNCHANGED <<route, ps, orig, req, genIds, steps, fault, delegated,
                   nServed, regVars, runVars>>

\* the closure FILES registers: the path for the file server is read from the
\* merged query, and http.FileServer answers
FilesServe ==
    /\ pc = "chain"
    /\ route = "files"
    /\ delegated' = ValuesGet(Query(req.rawQuery), "filepath")
    /\ \E code \in FileStatuses :
          Responded(Write(WriteHeader(rs, code), <<"file">>))
    /\ pc' = "done"
    /\ UNCHANGED <<route, ps, orig, req, genIds, steps, fault, lastHelper,
                   nServed, regVars, runVars>>


(***************************************************************************)
(*                      Run AND THE ERROR CHANNEL                          *)
(***************************************************************************)
Runners == 1..MaxRuns
Receivers == 1..MaxReceivers

\* New, line 86: make(chan error) has no buffer
ErrChanCap == 0

\* Server.serve(): blocks while the listener runs and returns why it stopped
ServeResults == {"nil", "bind: address already in use", "tls: bad certificate"}

Waiting == {c \in Receivers : recvPc[c] = "waiting"}

\* whether a send on errChan can complete: room in the buffer, or a receiver
\* blocked in a receive
\* (faulty variant: a channel that always has room)
CanSendBuffered(buf, waiting) == TRUE
CanSend(buf, waiting) == Len(buf) < ErrChanCap \/ waiting # {}

\* Run, lines 99-101: the log lines, then serve() is entered
RunStart(r) ==
    /\ runPc[r] = "init"
    /\ runPc' = [runPc EXCEPT ![r] = "serving"]
    /\ UNCHANGED <<runErr, errChan, recvPc, recvLog, regVars, reqVars>>

\* Run, lines 101-102: serve() returns; an error is logged and Run goes on to
\* send it, nil lets Run return
ServeReturns(r) ==
    /\ runPc[r] = "serving"
    /\ \E err \in ServeResults :
          /\ runErr' = [runErr EXCEPT ![r] = err]
          /\ runPc' = [runPc EXCEPT ![r] = IF err # "nil" THEN "sending"
                                           ELSE "returned"]
    /\ UNCHANGED <<errChan, recvPc, recvLog, regVars, reqVars>>

\* Run, line 103: s.errChan <- err completes, handing the value to a blocked
\* receiver when there is one, and Run returns
RunSend(r) ==
    /\ runPc[r] = "sending"
    /\ CanSend(errChan, Waiting)
    /\ IF Waiting # {}
       THEN \E c \in Waiting :
               /\ recvLog' = [recvLog EXCEPT ![c] = Append(@, <<r, runErr[r]>>)]
               /\ recvPc' = [recvPc EXCEPT ![c] = "ready"]
               /\ errChan' = errChan
       ELSE /\ errChan' = Append(errChan, <<r, runErr[r]>>)
            /\ UNCHANGED <<recvPc, recvLog>>
    /\ runPc' = [runPc EXCEPT ![r] = "returned"]
    /\ UNCHANGED <<runErr, regVars, reqVars>>

\* a caller of ListenError() receives: <-s.ListenError() takes a buffered
\* value if there is one and blocks otherwise
Receive(c) ==
    /\ recvPc[c] = "ready"
    /\ Len(recvLog[c]) < MaxReceives
    /\ IF errChan # <<>>
       THEN /\ recvLog' = [recvLog EXCEPT ![c] = Append(@, Head(errChan))]
            /\ errChan' = Tail(errChan)
            /\ recvPc' = recvPc
       ELSE /\ recvPc' = [recvPc EXCEPT ![c] = "waiting"]
            /\ UNCHANGED <<recvLog, errChan>>
    /\ UNCHANGED <<runPc, runErr, regVars, reqVars>>

(***************************************************************************)
(*                          THE SPECIFICATIONS                             *)
(***************************************************************************)
RegIdle ==
    /\ middlewares = <<>>
    /\ routes = <<>>
    /\ lastCall = NoCall
    /\ nCalls = 0
    /\ hit = NoHit

ReqIdle ==
    /\ pc = "idle"
    /\ route = "none"
    /\ ps = <<>>
    /\ orig = NoRequest
    /\ req = NoRequest
    /\ rw = NoRw
    /\ wire = <<>>
    /\ respHdr = NoHdr
    /\ genIds = <<>>
    /\ steps = 0
    /\ fault = FALSE
    /\ lastHelper = NoHelper
    /\ delegated = "none"
    /\ nServed = 0

RunIdle ==
    /\ runPc = [r \in Runners |-> "init"]
    /\ runErr = [r \in Runners |-> "nil"]
    /\ errChan = <<>>
    /\ recvPc = [c \in Receivers |-> "ready"]
    /\ recvLog = [c \in Receivers |-> <<>>]

\* New: an empty router and error channel; Opts.EnableLogger decides the
\* server's global middleware list
InitReg ==
    /\ \E enableLogger \in BOOLEAN :
          middlewares = NewMiddlewares(enableLogger)
    /\ routes = <<>>
    /\ lastCall = NoCall
    /\ nCalls = 0
    /\ hit = NoHit
    /\ ReqIdle
    /\ RunIdle

NextReg ==
    \/ ServerRegister
    \/ GroupRegister
    \/ ServerRegisterFILES
    \/ GroupRegisterFILES
    \/ Dispatch

SpecReg == InitReg /\ [][NextReg]_vars

InitReq == RegIdle /\ ReqIdle /\ RunIdle

NextReq ==
    \/ f
    \/ HandlerWriteHeader
    \/ HandlerWrite
    \/ HandlerResponse
    \/ HandlerResponseString
    \/ HandlerResponseJSON
    \/ HandlerSetHeader
    \/ HandlerPanic
    \/ HandlerReturn
    \/ recoverPanic
    \/ FilesServe

SpecReq == InitReq /\ [][NextReq]_vars

InitRun == RegIdle /\ ReqIdle /\ RunIdle

NextRun ==
    \/ \E r \in Runners : RunStart(r) \/ ServeReturns(r) \/ RunSend(r)
    \/ \E c \in Receivers : Receive(c)

SpecRun == InitRun /\ [][NextRun]_vars


(***************************************************************************)
(*                              THE CLAIMS                                 *)
(***************************************************************************)
\* the identifier the request-id rule prescribes for the request being served
ResolvedId ==
    IF Get(orig.hdr.rid) # "" THEN Get(orig.hdr.rid)
    ELSE IF Get(orig.hdr.xid) # "" THEN Get(orig.hdr.xid)
    ELSE IF genIds = <<>> THEN "" ELSE Last(genIds)

\* C1: once f has run for a request, and before any middleware or handler
\* has, the request's Request-Id is the inbound non-empty Request-Id, else
\* the inbound non-empty X-Request-Id, else an identifier generated for this
\* request, non-empty and different from every identifier generated before;
\* the wrapper holds that value, and it is the Request-Id a response helper
\* called with the wrapper sets on the response, whatever the handler did to
\* the request's headers meanwhile.
C1_RequestIdResolved ==
    pc # "idle" =>
        /\ ResolvedId # ""
        /\ rw.requestID = ResolvedId
        /\ (pc = "chain" /\ steps = 0) => Get(req.hdr.rid) = ResolvedId
        /\ GeneratesId(orig.hdr) =>
              /\ genIds # <<>>
              /\ \A i \in 1..(Len(genIds) - 1) : genIds[i] # ResolvedId
        /\ \A i, j \in 1..Len(genIds) : i # j => genIds[i] # genIds[j]
        /\ (lastHelper.name # "none" /\ lastHelper.own) =>
              respHdr.rid = ResolvedId

\* C1 witness: the second of two requests without id headers got its own
\* identifier, its handler overwrote the request header, and Response wrote
\* the generated identifier on the response.
C1_Witness ==
    /\ pc = "done"
    /\ Len(genIds) = 2
    /\ GeneratesId(orig.hdr)
    /\ req.hdr.rid = <<"forged">>
    /\ lastHelper.name = "Response"
    /\ lastHelper.own
    /\ respHdr.rid = genIds[2]

\* C2: a request whose chain raised a fault ends with status 500 and the
\* fixed panic text as its whole body, also when the chain had already
\* written a status or body bytes.
C2_PanicGives500 ==
    (pc = "done" /\ fault) =>
        /\ WireStatus(wire) = StatusInternalServerError
        /\ WireBody(wire) = PanicText

\* C3: a per-verb registration call that returns has bound its handler under
\* exactly its own verb at its path: a request with that verb reaches the
\* handler, a request with any other verb does not.
C3_VerbBoundExactly ==
    (lastCall.api \in Verbs /\ lastCall.panic = "none") =>
        /\ \A v \in Verbs :
              (Lookup(routes, v, FullPath(lastCall)) = lastCall.h)
                  <=> (v = lastCall.api)
        /\ hit.verb = lastCall.api => hit.h = lastCall.h

\* C4: the path a FILES route hands to the file server is the suffix the
\* catch-all captured, whatever the query string of the request.
C4_DelegatedIsCaptured ==
    (pc = "done" /\ route = "files") => delegated = ps[1].Value

\* C5: the handler a Group registration (FILES included) binds runs the
\* Group's middlewares first, then the route's, then the handler.
C5_GroupMiddlewaresAhead ==
    (lastCall.recv = "group" /\ lastCall.panic = "none") =>
        routes[lastCall.regs[1]].layers =
            <<"f", "recoverPanic">> \o GroupMiddlewares \o lastCall.mws
                \o <<lastCall.h>>

C7_ForeignWriterNoBody ==
    (lastHelper.name # "none" /\ ~lastHelper.own) =>
        LET added == SubSeq(wire, lastHelper.from + 1, lastHelper.to)
        IN  /\ added[1] = [op |-> "WriteHeader",
                           code |-> StatusInternalServerError, data |-> <<>>]
            /\ \A i \in 1..Len(added) :
                  added[i].op = "Write" => added[i].data = <<>>

\* C8: ResponseJSON with a value json cannot encode returns an error and
\* makes no Write; with a value it can encode it returns nil after calling,
\* in this order, WriteHeader (with the caller's status when the writer is
\* the package's wrapper) and one Write of the value's JSON text ended by the
\* encoder's newline.
C8_ResponseJSON ==
    lastHelper.name = "ResponseJSON" =>
        LET added == SubSeq(wire, lastHelper.from + 1, lastHelper.to)
        IN  IF lastHelper.arg = "chan"
            THEN /\ lastHelper.ret \notin {"nil", "none"}
                 /\ \A i \in 1..Len(added) : added[i].op # "Write"
            ELSE /\ lastHelper.ret = "nil"
                 /\ Len(added) = 2
                 /\ added[1].op = "WriteHeader"
                 /\ lastHelper.own => added[1].code = lastHelper.status
                 /\ added[2] = [op |-> "Write", code |-> 0,
                                data |-> <<"{\"X\":1}", "\n">>]

\* C8 witness: ResponseJSON was called on the wrapper with the value holding
\* a channel, returned an error, and the response has a status and no body.
C8_Witness ==
    /\ lastHelper.name = "ResponseJSON"
    /\ lastHelper.own
    /\ lastHelper.arg = "chan"
    /\ lastHelper.ret # "nil"
    /\ lastHelper.to = lastHelper.from + 1
    /\ WireBody(wire) = <<>>

\* the places in the receivers' logs that hold a value sent by Run call r
ReceivedFrom(r) ==
    {p \in Receivers \X (1..MaxReceives) :
        /\ p[2] <= Len(recvLog[p[1]])
        /\ recvLog[p[1]][p[2]][1] = r}

\* C9: a Run whose serve() failed sends its error once: the error is never
\* received twice, what a receiver obtains is the error serve() returned, Run
\* has returned only if the error has been received, and nothing sits in the
\* channel, so a Run nobody receives from never returns; a Run whose
\* serve() returned nil sends nothing.
C9_ErrorReportedOnce ==
    /\ errChan = <<>>
    /\ \A r \in Runners :
          /\ \A p \in ReceivedFrom(r) : recvLog[p[1]][p[2]][2] = runErr[r]
          /\ Cardinality(ReceivedFrom(r)) <= 1
          /\ (runPc[r] = "returned" /\ runErr[r] # "nil")
                <=> (ReceivedFrom(r) # {})
          /\ runErr[r] = "nil" => ReceivedFrom(r) = {}

\* C9 witness: one failed Run has returned, its error received, while another
\* failed Run is blocked on the send with no receiver waiting.
C9_Witness ==
    \E r1, r2 \in Runners :
        /\ runPc[r1] = "returned"
        /\ ReceivedFrom(r1) # {}
        /\ runPc[r2] = "sending"
        /\ Waiting = {}

IsPrefix(a, b) == Len(a) <= Len(b) /\ SubSeq(b, 1, Len(a)) = a

\* C10: while the chain and the handler of a request run, every path
\* parameter's value is among the query values of its key, every value the
\* query string had for a key is still there (in the same order, ahead of
\* the parameter), and a request without path parameters has the query
\* string it arrived with.
C10_ParamsMerged ==
    pc \in {"chain", "recover", "done"} =>
        /\ \A i \in 1..Len(ps) :
              \E j \in 1..Len(Query(req.rawQuery)[ps[i].Key]) :
                  Query(req.rawQuery)[ps[i].Key][j] = ps[i].Value
        /\ \A k \in QueryKeys :
              IsPrefix(Query(orig.rawQuery)[k], Query(req.rawQuery)[k])
        /\ ps = <<>> => req.rawQuery = orig.rawQuery

\* C10 witness: a request to the parameter route that already had id=1 in
\* its query reaches the handler with both values of id and its q.
C10_Witness ==
    /\ pc = "chain"
    /\ route = "param"
    /\ Query(orig.rawQuery)["id"] = <<"1">>
    /\ Query(req.rawQuery)["id"] = <<"1", "7">>
    /\ Query(req.rawQuery)["q"] = <<"2">>
    /\ req.rawQuery # orig.rawQuery

===========================================================================
